---- MODULE Spec2Model ----
(***************************************************************************)
(* Model of unarchive.py: paginated enumeration of a bucket, dispatch of   *)
(* one restore task per archived object to a per-page thread pool, folding *)
(* of the task results into a Status, and the resume protocol that reads   *)
(* the tail of the log file written by the previous invocation.            *)
(***************************************************************************)
EXTENDS Integers, Sequences, FiniteSets, TLC

(***************************************************************************)
(* Bounds of the model.                                                    *)
(***************************************************************************)
MaxObjects == 2
MaxSize == 2
MaxThreads == 2
MaxResumes == 1

(***************************************************************************)
(* Object keys are strings, modelled as sequences of characters.  The      *)
(* bucket holds the first n keys of AllKeys, which is in listing order     *)
(* (byte-wise lexicographic).  The second key contains the quote character *)
(* that delimits the key in the log message.                               *)
(***************************************************************************)
QUOTE == "'"

AllKeys ==
    << <<"a">>, <<"b", QUOTE, "c">>, <<"c">>, <<"c", "c">>, <<"d">> >>

Prefixes == { <<>>, <<"a">> }

Tiers == {"GLACIER", "ACCELERATED", "STANDARD"}

Ord(c) ==
    CASE c = QUOTE -> 39
      [] c = "a" -> 97
      [] c = "b" -> 98
      [] c = "c" -> 99
      [] c = "d" -> 100

RECURSIVE LexLess(_, _)
LexLess(s, t) ==
    IF t = <<>> THEN FALSE
    ELSE IF s = <<>> THEN TRUE
    ELSE IF Ord(Head(s)) # Ord(Head(t)) THEN Ord(Head(s)) < Ord(Head(t))
    ELSE LexLess(Tail(s), Tail(t))

StartsWith(key, prefix) ==
    /\ Len(prefix) <= Len(key)
    /\ SubSeq(key, 1, Len(prefix)) = prefix

Min(a, b) == IF a < b THEN a ELSE b

RECURSIVE Reverse(_)
Reverse(s) == IF s = <<>> THEN <<>> ELSE Append(Reverse(Tail(s)), Head(s))

(***************************************************************************)
(* list_objects_v2 as the paginator uses it: the positions (in the bucket) *)
(* of the keys that begin with the prefix and are strictly greater than    *)
(* StartAfter, in key order; page p holds at most MaxKeys of them.         *)
(***************************************************************************)
AfterStart(key, start_after) == LexLess(start_after, key)

RECURSIVE ListFrom(_, _, _, _)
ListFrom(i, n, prefix, start_after) ==
    IF i > n THEN <<>>
    ELSE (IF StartsWith(AllKeys[i], prefix) /\ AfterStart(AllKeys[i], start_after)
          THEN <<i>> ELSE <<>>) \o ListFrom(i + 1, n, prefix, start_after)

Listing(b, prefix, start_after) == ListFrom(1, Len(b), prefix, start_after)

PageOf(listing, max_keys, p) ==
    SubSeq(listing, (p - 1) * max_keys + 1, Min(p * max_keys, Len(listing)))

IsTruncated(listing, max_keys, p) == p * max_keys < Len(listing)

\* number of pages the paginator yields: an empty listing still gives one
\* (empty) response
PagesYielded(listing, max_keys) ==
    IF Len(listing) = 0 THEN 1 ELSE (Len(listing) + max_keys - 1) \div max_keys

\* variant: the filter keeps one storage class only
IsArchived_glacier(tier) == tier = "GLACIER"

\* the filter of restore_objects on the StorageClass of a listed object
IsArchived(tier) == tier = "GLACIER" \/ tier = "ACCELERATED"

archived_objects(b, objects) == SelectSeq(objects, LAMBDA i : IsArchived(b[i]))

(***************************************************************************)
(* Status                                                                  *)
(***************************************************************************)
Status(e, r, a) == [error |-> e, restored |-> r, already_restored |-> a]

\* variant: one of the three increments is missing
increment_drop(status, result) ==
    Status(status.error + result.error,
           status.restored + result.restored,
           status.already_restored)

\* variant: the result of the last future replaces the counters
increment_overwrite(status, result) ==
    Status(result.error, result.restored, result.already_restored)

increment(status, result) ==
    Status(status.error + result.error,
           status.restored + result.restored,
           status.already_restored + result.already_restored)

Total(status) == status.error + status.restored + status.already_restored

(***************************************************************************)
(* Log lines.  A line is the text that logging writes: level, the message  *)
(* template, the object key as embedded between quotes and the index as    *)
(* the digit string that the format produced.                              *)
(***************************************************************************)
RECURSIVE ToDigits(_)
ToDigits(n) == IF n < 10 THEN <<n>> ELSE Append(ToDigits(n \div 10), n % 10)

RECURSIVE ZeroPad(_, _)
ZeroPad(ds, width) == IF Len(ds) >= width THEN ds ELSE ZeroPad(<<0>> \o ds, width)

INDEX_WIDTH == 10

\* f"{index:010}"
FormatIndex(index) == ZeroPad(ToDigits(index), INDEX_WIDTH)

\* int(match.group(2))
RECURSIVE ParseInt(_)
ParseInt(ds) ==
    IF ds = <<>> THEN 0 ELSE ParseInt(SubSeq(ds, 1, Len(ds) - 1)) * 10 + ds[Len(ds)]

Line(level, msg, key, digits) ==
    [level |-> level, msg |-> msg, key |-> key, index |-> digits]

\* the messages of restore_object; what follows the index in the text is not
\* kept, the pattern accepts anything there
RestoredLine(key, index) == Line("INFO", "Object '", key, FormatIndex(index))
AlreadyLine(key, index) == Line("WARNING", "Object '", key, FormatIndex(index))
ProgressLine(key, index) == Line("WARNING", "Object '", key, FormatIndex(index))
NotFoundLine(key, index) == Line("ERROR", "Object '", key, FormatIndex(index))
FailedLine(key, index) == Line("ERROR", "Failed to restore object '", key, ToDigits(index))
\* the other messages
PlainLine(level, msg) == Line(level, msg, <<>>, <<>>)

\* group 1 of LOG_RE_PATTERN, '(.*?)': the shortest text followed by a quote
RECURSIVE UpToQuote(_)
UpToQuote(text) ==
    IF text = <<>> \/ Head(text) = QUOTE THEN <<>>
    ELSE <<Head(text)>> \o UpToQuote(Tail(text))

\* re.search(LOG_RE_PATTERN, line); line is a sequence of line texts of
\* length 1, or empty for the empty string
LOG_RE_PATTERN(line) ==
    /\ Len(line) = 1
    /\ line[1].level \in {"INFO", "WARNING"}
    /\ line[1].msg = "Object '"

(***************************************************************************)
(* get_last_n_lines: the file is its lines, each followed by a newline;    *)
(* the scan goes byte by byte from the end of the file.                    *)
(***************************************************************************)
NL == [level |-> "", msg |-> "\n", key |-> <<>>, index |-> <<>>]

RECURSIVE FileOf(_)
FileOf(lines) ==
    IF lines = <<>> THEN <<>> ELSE <<Head(lines), NL>> \o FileOf(Tail(lines))

RECURSIVE ScanBack(_, _, _, _, _)
ScanBack(file, pointer_location, buffer, list_of_lines, N) ==
    IF pointer_location < 0
    THEN (IF Len(buffer) > 0 THEN Append(list_of_lines, Reverse(buffer))
                             ELSE list_of_lines)
    ELSE LET new_byte == IF pointer_location < Len(file)
                         THEN <<file[pointer_location + 1]>> ELSE <<>>
         IN  IF new_byte = <<NL>>
             THEN LET lines == Append(list_of_lines, Reverse(buffer))
                  IN  IF Len(lines) = N THEN Reverse(lines)
                      ELSE ScanBack(file, pointer_location - 1, <<>>, lines, N)
             ELSE ScanBack(file, pointer_location - 1, buffer \o new_byte,
                           list_of_lines, N)

get_last_n_lines(lines, N) == ScanBack(FileOf(lines), Len(FileOf(lines)), <<>>, <<>>, N)

LOOKBACK == 100

NoObject == [found |-> FALSE, key |-> <<>>, index |-> 0]

RECURSIVE FirstMatch(_)
FirstMatch(lines) ==
    IF lines = <<>> THEN NoObject
    ELSE IF LOG_RE_PATTERN(Head(lines))
         THEN [found |-> TRUE, key |-> UpToQuote(Head(lines)[1].key),
               index |-> ParseInt(Head(lines)[1].index)]
         ELSE FirstMatch(Tail(lines))

get_last_object(lines) == FirstMatch(Reverse(get_last_n_lines(lines, LOOKBACK)))

(***************************************************************************)
(* restore_object: what the task does when head_object returns, and when   *)
(* the restore request returns.  Each gives the next state of the task,    *)
(* its result and the line it logs.                                        *)
(***************************************************************************)
HeadResults == {"raise", "nohead", "restore:false", "restore:true", "norestore"}
RestoreResults == {"ok", "raise"}

\* the task returns a Status
Returns(result, line) ==
    [st |-> "done", exc |-> FALSE, result |-> result, line |-> <<line>>]
\* the task ends with an exception, which Future.result() raises again
Raises == [st |-> "done", exc |-> TRUE, result |-> Status(0, 0, 0), line |-> <<>>]
\* the task goes on to cos_cli.restore_object
Restores == [st |-> "restoring", exc |-> FALSE, result |-> Status(0, 0, 0), line |-> <<>>]

\* variant: no except clause around head_object
restore_object_head_uncaught(key, index, h) ==
    CASE h = "raise" -> Raises
      [] h = "nohead" -> Returns(Status(1, 0, 0), NotFoundLine(key, index))
      [] h = "restore:false" -> Returns(Status(0, 0, 1), AlreadyLine(key, index))
      [] h = "restore:true" -> Returns(Status(0, 0, 1), ProgressLine(key, index))
      [] h = "norestore" -> Restores

\* variant: a restore in progress is requested again
restore_object_head_reissue(key, index, h) ==
    CASE h = "raise" -> Returns(Status(1, 0, 0), FailedLine(key, index))
      [] h = "nohead" -> Returns(Status(1, 0, 0), NotFoundLine(key, index))
      [] h = "restore:false" -> Returns(Status(0, 0, 1), AlreadyLine(key, index))
      [] h = "restore:true" -> Restores
      [] h = "norestore" -> Restores

restore_object_head(key, index, h) ==
    CASE h = "raise" -> Returns(Status(1, 0, 0), FailedLine(key, index))
      [] h = "nohead" -> Returns(Status(1, 0, 0), NotFoundLine(key, index))
      [] h = "restore:false" -> Returns(Status(0, 0, 1), AlreadyLine(key, index))
      [] h = "restore:true" -> Returns(Status(0, 0, 1), ProgressLine(key, index))
      [] h = "norestore" -> Restores

restore_object_restore(key, index, r) ==
    IF r = "ok"
    THEN Returns(Status(0, 1, 0), RestoredLine(key, index))
    ELSE Returns(Status(1, 0, 0), FailedLine(key, index))

(***************************************************************************)
(* State                                                                   *)
(***************************************************************************)
VARIABLES
    bucket,        \* the storage class of each object, in key order
    cfg,           \* the command line: threads, size, prefix, log_file
    unarchive_log, \* the file "unarchive.log" when --log names another file
    resumes,       \* number of invocations with --resume in a row
    pc,            \* where the main thread is
    exitCode,      \* exit status of the process, -1 while there is none
    resume,        \* --resume of the current invocation
    log,           \* the lines of the log file
    prev,          \* what --resume found of an interrupted run: the objects
                   \* its log has lines for
    last_object,   \* start_after of restore_objects
    last_index,    \* start_index of restore_objects
    object_count,
    page_count,
    pages,         \* the keys that the paginator yields, page after page
    page_index,
    index,
    objects,       \* page["Contents"] of the current page
    tosubmit,      \* archived objects of the page not yet submitted
    tasks,         \* the futures
    status,
    retval,        \* what restore_objects returned
    listError,     \* the listing raised
    answers        \* what the service answered for each object in this run

vars == <<bucket, cfg, unarchive_log, resumes, pc, exitCode, resume, log, prev, last_object,
          last_index, object_count, page_count, pages, page_index, index,
          objects, tosubmit, tasks, status, retval, listError, answers>>

config == <<bucket, cfg, unarchive_log>>

\* the default of --log, and the name that get_last_object opens
DEFAULT_LOG == "unarchive.log"

LogFiles == {DEFAULT_LOG, "other.log"}

\* logging writes to cfg.log_file (log); any other file is as it was found
ReadFile(file_name) ==
    IF file_name = cfg.log_file THEN log
    ELSE IF file_name = DEFAULT_LOG THEN unarchive_log
    ELSE <<>>

NoCount == [known |-> FALSE, n |-> 0]
Count(n) == [known |-> TRUE, n |-> n]

Running == {"count", "restore", "fetch", "page"}

\* what the service answered for an object: nothing yet, an exception from
\* either call, no metadata, a Restore header, no Restore header, and then the
\* restore request accepted
NoAnswer == ""

AnswerOfHead(h) ==
    CASE h = "raise" -> "exception"
      [] h = "nohead" -> "nohead"
      [] h \in {"restore:false", "restore:true"} -> "restore"
      [] h = "norestore" -> "norestore"

AnswerOfRestore(r) == IF r = "ok" THEN "accepted" ELSE "exception"

\* the state of a process that has not reached restore_objects
Fresh ==
    /\ object_count' = -1
    /\ page_count' = NoCount
    /\ pages' = <<>>
    /\ page_index' = 1
    /\ index' = 0
    /\ objects' = <<>>
    /\ tosubmit' = <<>>
    /\ tasks' = <<>>
    /\ status' = Status(0, 0, 0)
    /\ retval' = "running"
    /\ listError' = FALSE
    /\ answers' = [i \in 1..Len(bucket) |-> NoAnswer]

\* the keys (as positions in AllKeys) with a record that the pattern matches
Recorded(lines) ==
    {i \in 1..Len(AllKeys) :
        \E n \in 1..Len(lines) : LOG_RE_PATTERN(<<lines[n]>>) /\ lines[n].key = AllKeys[i]}

\* the keys with a line of restore_object, whatever its level
Probed(lines) ==
    {i \in 1..Len(AllKeys) :
        \E n \in 1..Len(lines) : lines[n].key = AllKeys[i] /\ lines[n].msg # "Restoring"}

NoPrev == [interrupted |-> FALSE, recorded |-> {}, probed |-> {}]

Buckets == UNION { [1..n -> Tiers] : n \in 0..MaxObjects }

\* an unarchive.log left by an earlier run with the default --log
LeftOverLog == <<PlainLine("INFO", "Login"), RestoredLine(AllKeys[1], 0)>>

\* the command lines of the model: every combination with the default log
\* file, and --log with another file for one thread, the largest page size
\* and no prefix
Configs ==
    [threads : 1..MaxThreads, size : 1..MaxSize, prefix : Prefixes,
     log_file : {DEFAULT_LOG}]
    \cup [threads : {1}, size : {MaxSize}, prefix : {<<>>},
          log_file : LogFiles \ {DEFAULT_LOG}]

Init ==
    /\ bucket \in Buckets
    /\ cfg \in Configs
    /\ unarchive_log \in IF cfg.log_file = DEFAULT_LOG THEN {<<>>}
                          ELSE {<<>>, LeftOverLog}
    /\ resumes = 0
    /\ pc = "idle"
    /\ exitCode = -1
    /\ resume = FALSE
    /\ log = <<>>
    /\ prev = NoPrev
    /\ last_object = <<>>
    /\ last_index = -1
    /\ object_count = -1
    /\ page_count = NoCount
    /\ pages = <<>>
    /\ page_index = 1
    /\ index = 0
    /\ objects = <<>>
    /\ tosubmit = <<>>
    /\ tasks = <<>>
    /\ status = Status(0, 0, 0)
    /\ retval = "running"
    /\ listError = FALSE
    /\ answers = [i \in 1..Len(bucket) |-> NoAnswer]

(***************************************************************************)
(* main, up to the creation of the client                                  *)
(***************************************************************************)
Exit(code) == pc' = "exit" /\ exitCode' = code

NoSeed == last_object' = <<>> /\ last_index' = -1

main(res) ==
    /\ pc \in {"idle", "exit", "killed"}
    /\ res => resumes < MaxResumes
    /\ resumes' = IF res THEN resumes + 1 ELSE 0
    /\ resume' = res
    /\ prev' = IF res /\ pc = "killed"
                THEN [interrupted |-> TRUE, recorded |-> Recorded(log),
                      probed |-> Probed(log)]
                ELSE NoPrev
    /\ Fresh
    /\ UNCHANGED config
    /\ LET last == get_last_object(ReadFile(DEFAULT_LOG))
       IN  IF cfg.threads > cfg.size
           THEN \* parser.error
                Exit(2) /\ UNCHANGED log /\ NoSeed
           ELSE IF res /\ ~last.found
           THEN \* unpacking None raises TypeError
                Exit(1) /\ UNCHANGED log /\ NoSeed
           ELSE IF res /\ last.key = <<>>
           THEN \* exit(1)
                Exit(1) /\ UNCHANGED log /\ NoSeed
           ELSE /\ last_object' = IF res THEN last.key ELSE <<>>
                /\ last_index' = IF res THEN last.index ELSE -1
                \* logging.basicConfig(filemode="w")
                /\ log' = <<PlainLine("INFO", "Login")>>
                /\ pc' = IF cfg.prefix = <<>> THEN "count" ELSE "restore"
                /\ exitCode' = -1

get_object_count(ok) ==
    /\ pc = "count"
    /\ IF ~ok
       THEN \* the query raises, nothing catches it
            /\ Exit(1)
            /\ UNCHANGED <<log, object_count>>
       ELSE /\ log' = Append(log, PlainLine("INFO", "Number of objects"))
            /\ object_count' = Len(bucket)
            /\ IF Len(bucket) < 1 THEN Exit(1)
               ELSE pc' = "restore" /\ exitCode' = exitCode
    /\ UNCHANGED <<config, resumes, resume, prev, last_object, last_index,
                   page_count, pages, page_index, index, objects, tosubmit, tasks,
                   status, retval, listError, answers>>

(***************************************************************************)
(* restore_objects                                                         *)
(***************************************************************************)
CeilDiv(a, b) == -((-a) \div b)

\* variant: the quotient is rounded down
page_count_formula_floor(count, max_keys, after, idx) ==
    IF after = <<>> THEN count \div max_keys
    ELSE (count - idx) \div max_keys

\* page_count without a prefix
page_count_formula(count, max_keys, after, idx) ==
    IF after = <<>> THEN CeilDiv(count, max_keys)
    ELSE CeilDiv(count - idx, max_keys)

\* variant: the counter restarts at the recorded index
first_index_same(idx) == IF idx = -1 THEN 0 ELSE idx

\* index = 0 if start_index == -1 else (start_index + 1)
first_index(idx) == IF idx = -1 THEN 0 ELSE idx + 1

restore_objects_begin(ok) ==
    /\ pc = "restore"
    /\ cfg.prefix = <<>> => ok
    /\ LET listing == Listing(bucket, cfg.prefix, last_object)
           head == Line("INFO", "Restoring", last_object,
                        IF last_object = <<>> THEN <<>> ELSE FormatIndex(last_index))
       IN  IF cfg.prefix = <<>>
           THEN /\ page_count' = Count(page_count_formula(object_count, cfg.size,
                                                          last_object, last_index))
                /\ log' = Append(log, head)
           ELSE \* get_page_count lists the whole bucket once
                /\ page_count' = IF ok THEN Count(PagesYielded(listing, cfg.size))
                                 ELSE NoCount
                /\ log' = log \o <<head, PlainLine("INFO", "Retrieving bucket pages"),
                                   IF ok THEN PlainLine("INFO", "Page count")
                                   ELSE PlainLine("ERROR", "CLIENT ERROR")>>
    /\ pages' = Listing(bucket, cfg.prefix, last_object)
    /\ index' = first_index(last_index)
    /\ page_index' = 1
    /\ status' = Status(0, 0, 0)
    /\ pc' = "fetch"
    /\ UNCHANGED <<config, resumes, exitCode, resume, prev, last_object,
                   last_index, object_count, objects, tosubmit, tasks, retval,
                   listError, answers>>

\* the paginator has no further page
Exhausted == page_index > 1 /\ ~IsTruncated(pages, cfg.size, page_index - 1)

NewTask(i, idx, p) ==
    [key |-> i, index |-> idx, page |-> p, st |-> "pending", head |-> "",
     rr |-> "", rpc |-> 0, exc |-> FALSE, result |-> Status(0, 0, 0),
     folded |-> FALSE]

Unfinished(ts) == SelectSeq(ts, LAMBDA t : t.st # "done")

\* for page in pages: the next page arrives
FetchPage ==
    /\ pc = "fetch"
    /\ ~Exhausted
    /\ PageOf(pages, cfg.size, page_index) # <<>>
    /\ objects' = PageOf(pages, cfg.size, page_index)
    /\ tosubmit' = archived_objects(bucket, PageOf(pages, cfg.size, page_index))
    /\ tasks' = Unfinished(tasks)
    /\ pc' = "page"
    /\ UNCHANGED <<config, resumes, exitCode, resume, log, prev, last_object,
                   last_index, object_count, page_count, pages, page_index, index,
                   status, retval, listError, answers>>

\* restore_objects returns None after an exception; main prints the status
\* and returns
ReturnNone(line) ==
    /\ log' = Append(log, line)
    /\ retval' = "None"
    /\ Exit(0)

\* for page in pages: the listing raises ClientError
ListFails ==
    /\ pc = "fetch"
    /\ ~Exhausted
    /\ ReturnNone(PlainLine("ERROR", "CLIENT ERROR"))
    /\ listError' = TRUE
    /\ UNCHANGED <<config, resumes, resume, prev, last_object, last_index,
                   object_count, page_count, pages, page_index, index, objects,
                   tosubmit, tasks, status, answers>>

\* page["Contents"] of a response without keys raises KeyError
NoContents ==
    /\ pc = "fetch"
    /\ ~Exhausted
    /\ PageOf(pages, cfg.size, page_index) = <<>>
    /\ ReturnNone(PlainLine("ERROR", "Unable to retrieve bucket contents"))
    /\ UNCHANGED <<config, resumes, resume, prev, last_object, last_index,
                   object_count, page_count, pages, page_index, index, objects,
                   tosubmit, tasks, status, listError, answers>>

\* the pages are exhausted: return status
Return ==
    /\ pc = "fetch"
    /\ Exhausted
    /\ retval' = "status"
    /\ Exit(0)
    /\ UNCHANGED <<config, resumes, resume, log, prev, last_object, last_index,
                   object_count, page_count, pages, page_index, index, objects,
                   tosubmit, tasks, status, listError, answers>>

\* variant: the counter is not advanced
next_index_stay(idx) == idx

\* index+=1
next_index(idx) == idx + 1

\* executor.submit(restore_object, bucket_name, object, days, index)
Submit ==
    /\ pc = "page"
    /\ tosubmit # <<>>
    /\ tasks' = Append(tasks, NewTask(Head(tosubmit), index, page_index))
    /\ index' = next_index(index)
    /\ tosubmit' = Tail(tosubmit)
    /\ UNCHANGED <<config, resumes, pc, exitCode, resume, log, prev, last_object,
                   last_index, object_count, page_count, pages, page_index, objects,
                   status, retval, listError, answers>>

InFlight(t) == t.st \in {"probing", "restoring"}

\* variant: one thread more than max_workers
PoolHasFreeWorker_extra(ts, p, threads) ==
    Cardinality({i \in 1..Len(ts) : ts[i].page = p /\ InFlight(ts[i])}) <= threads

\* a thread of the pool of page p is free
PoolHasFreeWorker(ts, p, threads) ==
    Cardinality({i \in 1..Len(ts) : ts[i].page = p /\ InFlight(ts[i])}) < threads

\* a worker takes the oldest queued task of its pool and calls head_object
StartTask(i) ==
    /\ pc \in {"page", "fetch", "exit"}
    /\ tasks[i].st = "pending"
    /\ \A j \in 1..(i - 1) : tasks[j].page = tasks[i].page => tasks[j].st # "pending"
    /\ PoolHasFreeWorker(tasks, tasks[i].page, cfg.threads)
    /\ tasks' = [tasks EXCEPT ![i].st = "probing"]
    /\ UNCHANGED <<config, resumes, pc, exitCode, resume, log, prev, last_object,
                   last_index, object_count, page_count, pages, page_index, index,
                   objects, tosubmit, status, retval, listError, answers>>

HeadReturns(i, h) ==
    /\ pc \in {"page", "fetch", "exit"}
    /\ tasks[i].st = "probing"
    /\ LET r == restore_object_head(AllKeys[tasks[i].key], tasks[i].index, h)
       IN  /\ tasks' = [tasks EXCEPT ![i].st = r.st, ![i].head = h,
                                     ![i].result = r.result, ![i].exc = r.exc,
                                     ![i].rpc = IF r.st = "restoring" THEN 1 ELSE 0]
           /\ log' = log \o r.line
    /\ answers' = [answers EXCEPT ![tasks[i].key] = AnswerOfHead(h)]
    /\ UNCHANGED <<config, resumes, pc, exitCode, resume, prev, last_object,
                   last_index, object_count, page_count, pages, page_index, index,
                   objects, tosubmit, status, retval, listError>>

RestoreReturns(i, r) ==
    /\ pc \in {"page", "fetch", "exit"}
    /\ tasks[i].st = "restoring"
    /\ LET o == restore_object_restore(AllKeys[tasks[i].key], tasks[i].index, r)
       IN  /\ tasks' = [tasks EXCEPT ![i].st = o.st, ![i].rr = r,
                                     ![i].result = o.result, ![i].exc = o.exc]
           /\ log' = log \o o.line
    /\ answers' = [answers EXCEPT ![tasks[i].key] = AnswerOfRestore(r)]
    /\ UNCHANGED <<config, resumes, pc, exitCode, resume, prev, last_object,
                   last_index, object_count, page_count, pages, page_index, index,
                   objects, tosubmit, status, retval, listError>>

\* for completed_task in as_completed(tasks): one future of the page
Fold(i) ==
    /\ pc = "page"
    /\ tosubmit = <<>>
    /\ tasks[i].page = page_index
    /\ tasks[i].st = "done"
    /\ ~tasks[i].folded
    /\ tasks' = [tasks EXCEPT ![i].folded = TRUE]
    /\ IF tasks[i].exc
       THEN \* completed_task.result() raises, restore_objects catches it
            /\ ReturnNone(PlainLine("ERROR", "Unable to retrieve bucket contents"))
            /\ UNCHANGED status
       ELSE /\ status' = increment(status, tasks[i].result)
            /\ UNCHANGED <<pc, exitCode, log, retval>>
    /\ UNCHANGED <<config, resumes, resume, prev, last_object,
                   last_index, object_count, page_count, pages, page_index, index,
                   objects, tosubmit, listError, answers>>

\* variant: the loop ends with the futures that are finished so far
PageComplete_nowait(ts, p) ==
    \A i \in 1..Len(ts) : (ts[i].page = p /\ ts[i].st = "done") => ts[i].folded

\* as_completed has yielded every future of the page
PageComplete(ts, p) == \A i \in 1..Len(ts) : ts[i].page = p => ts[i].folded

PageDone ==
    /\ pc = "page"
    /\ tosubmit = <<>>
    /\ PageComplete(tasks, page_index)
    /\ page_index' = page_index + 1
    /\ pc' = "fetch"
    \* the futures of the page are finished; only unfinished ones go on
    /\ tasks' = Unfinished(tasks)
    /\ UNCHANGED <<config, resumes, exitCode, resume, log, prev, last_object,
                   last_index, object_count, page_count, pages, index, objects,
                   tosubmit, status, retval, listError, answers>>

\* the process is killed; only the log file is left
Interrupt ==
    /\ pc \in Running
    /\ pc' = "killed"
    /\ exitCode' = -1
    /\ resume' = FALSE
    /\ prev' = NoPrev
    /\ Fresh
    /\ NoSeed
    /\ UNCHANGED <<config, resumes, log>>

Next ==
    \/ \E res \in BOOLEAN : main(res)
    \/ \E ok \in BOOLEAN : get_object_count(ok)
    \/ \E ok \in BOOLEAN : restore_objects_begin(ok)
    \/ FetchPage
    \/ ListFails
    \/ NoContents
    \/ Return
    \/ Submit
    \/ \E i \in 1..Len(tasks) : StartTask(i)
    \/ \E i \in 1..Len(tasks), h \in HeadResults : HeadReturns(i, h)
    \/ \E i \in 1..Len(tasks), r \in RestoreResults : RestoreReturns(i, r)
    \/ \E i \in 1..Len(tasks) : Fold(i)
    \/ PageDone
    \/ Interrupt

Spec == Init /\ [][Next]_vars

(***************************************************************************)
(* Properties                                                              *)
(***************************************************************************)
Eligible(i) == bucket[i] \in {"GLACIER", "ACCELERATED"}

ElementsOf(seq) == {seq[k] : k \in 1..Len(seq)}

\* the eligible objects of the pages that are finished when the page counter
\* is p
EligibleBefore(p) ==
    Cardinality({i \in ElementsOf(SubSeq(pages, 1,
                                         Min((p - 1) * cfg.size, Len(pages)))) :
                    Eligible(i)})

Folded == {k \in 1..Len(tasks) : tasks[k].folded}

Error == Status(1, 0, 0)
Restored == Status(0, 1, 0)
AlreadyRestored == Status(0, 0, 1)

\* C1: within a page the submitted tasks are the eligible objects of the
\* page, each once and in order; a finished task has exactly one outcome; the
\* Status holds one count for each eligible object of the finished pages and
\* each folded task of the current page, so that at the end of the page it has
\* grown by the number of eligible objects of the page.
OutcomesExactlyOnce ==
    /\ pc = "page" =>
          LET eligible == SelectSeq(objects, Eligible)
          IN  /\ Len(tasks) + Len(tosubmit) = Len(eligible)
              /\ \A k \in 1..Len(tasks) :
                    /\ tasks[k].key = eligible[k]
                    /\ tasks[k].page = page_index
                    /\ tasks[k].st = "done" =>
                          tasks[k].result \in {Error, Restored, AlreadyRestored}
                    /\ tasks[k].folded => tasks[k].st = "done"
              /\ Total(status) = EligibleBefore(page_index) + Cardinality(Folded)
    /\ pc = "fetch" => Total(status) = EligibleBefore(page_index)
    /\ (pc = "exit" /\ retval = "status") =>
          Total(status) = EligibleBefore(page_index)

\* a page with two eligible objects is finished, one of them failed, with two
\* workers
OutcomesExactlyOnceWitness ==
    /\ pc = "fetch"
    /\ cfg.threads = 2
    /\ page_index = 2
    /\ Total(status) = 2
    /\ status.error = 1

\* C2: a task that is pending or in flight belongs to the page the
\* dispatcher is working on, and the next page is fetched only when no task is
\* pending or in flight.
PageBarrier ==
    /\ \A k \in 1..Len(tasks) :
          tasks[k].st # "done" =>
             /\ pc = "page"
             /\ tasks[k].page = page_index
             /\ tasks[k].key \in ElementsOf(objects)
    /\ pc = "fetch" => \A k \in 1..Len(tasks) : tasks[k].st = "done"

\* a task of the second page is in flight
PageBarrierWitness ==
    /\ pc = "page"
    /\ page_index = 2
    /\ \E k \in 1..Len(tasks) : InFlight(tasks[k]) /\ tasks[k].page = 2

\* C3: at most cfg.threads restore operations (head_object or
\* restore_object calls) are in flight.
BoundedConcurrency ==
    Cardinality({k \in 1..Len(tasks) : InFlight(tasks[k])}) <= cfg.threads

\* two workers, one in head_object and one in restore_object
BoundedConcurrencyWitness ==
    /\ cfg.threads = 2
    /\ \E j, k \in 1..Len(tasks) :
          tasks[j].st = "probing" /\ tasks[k].st = "restoring"

\* the first eligible object that the listing of the run yields
FirstEligible ==
    {pages[n] : n \in {m \in 1..Len(pages) :
                          /\ Eligible(pages[m])
                          /\ \A j \in 1..(m - 1) : ~Eligible(pages[j])}}

\* C4: in a resumed run that got (last_object, last_index) from the log,
\* every listed key is greater than last_object, and the first eligible
\* object gets the index last_index + 1.
ResumeSeeding ==
    (resume /\ pc \in {"fetch", "page"}) =>
        /\ \A i \in ElementsOf(objects) :
              LexLess(last_object, AllKeys[i]) /\ AllKeys[i] # last_object
        /\ \A k \in 1..Len(tasks) :
              /\ tasks[k].index >= last_index + 1
              /\ tasks[k].key \in FirstEligible =>
                    tasks[k].index = last_index + 1

\* a resumed run whose record is (K, I) has dispatched its first object, with
\* index I + 1
ResumeSeedingWitness ==
    /\ resume
    /\ pc = "page"
    /\ last_object # <<>>
    /\ \E k \in 1..Len(tasks) :
          /\ tasks[k].index = last_index + 1
          /\ tasks[k].key \in FirstEligible
          /\ LexLess(last_object, AllKeys[tasks[k].key])

\* what the pattern extracts from a line
Extract(l) == [found |-> TRUE, key |-> UpToQuote(l.key), index |-> ParseInt(l.index)]

IsRecord(l) == l.level \in {"INFO", "WARNING"} /\ l.msg = "Object '"

\* the last LOOKBACK lines of the file
Window(lines) ==
    SubSeq(lines, IF Len(lines) > LOOKBACK THEN Len(lines) - LOOKBACK + 1 ELSE 1,
           Len(lines))

RecordsIn(lines) == {n \in 1..Len(lines) : IsRecord(lines[n])}

MostRecentRecord(lines) ==
    IF RecordsIn(lines) = {} THEN NoObject
    ELSE Extract(lines[CHOOSE n \in RecordsIn(lines) :
                          \A m \in RecordsIn(lines) : m <= n])

\* C5: whatever the log holds, get_last_object returns the most recent line
\* of the window that is an INFO or WARNING object record.
ResolverReturnsMostRecent ==
    RecordsIn(Window(log)) # {} =>
        get_last_object(log) = MostRecentRecord(Window(log))

\* the record with the greatest index
MaxRecord(lines) ==
    Extract(lines[CHOOSE n \in RecordsIn(lines) :
                     \A m \in RecordsIn(lines) :
                        ParseInt(lines[m].index) <= ParseInt(lines[n].index)])

\* C6: with more than one worker, after an interruption the resume point
\* that the scan of the log gives is the record with the greatest index.
ResumePointIsMaxIndex ==
    (pc = "killed" /\ cfg.threads > 1 /\ RecordsIn(log) # {}) =>
        get_last_object(log) = MaxRecord(log)

\* C7: a run resumed after an interruption dispatches no object that has an
\* INFO or WARNING record in the log of the interrupted run.
NoReprocessing ==
    (resume /\ prev.interrupted) =>
        \A k \in 1..Len(tasks) : tasks[k].key \notin prev.recorded

FailureOf(t) == t.head \in {"raise", "nohead"} \/ t.rr = "raise"

FailureIsolationStep ==
    /\ \A k \in 1..Len(tasks') :
          (tasks'[k].st = "done" /\ FailureOf(tasks'[k])) =>
              tasks'[k].result = Error /\ ~tasks'[k].exc
    /\ Len(tasks') = Len(tasks) =>
          \A k \in 1..Len(tasks) :
             /\ (tasks[k].st # "done" /\ tasks'[k].st = "done" /\ FailureOf(tasks'[k])) =>
                   /\ pc' = pc /\ exitCode' = exitCode /\ retval' = retval
                   /\ status' = status
                   /\ \A j \in 1..Len(tasks) : j # k => tasks'[j] = tasks[j]
             /\ (~tasks[k].folded /\ tasks'[k].folded /\ FailureOf(tasks[k])) =>
                   /\ status' = Status(status.error + 1, status.restored,
                                       status.already_restored)
                   /\ pc' = pc /\ retval' = retval
    /\ retval' = "None" => (listError' \/ pages' = <<>>)

\* C8: a failure of head_object or of the restore request, or an object that
\* is not found, ends the task with the Error outcome; the step changes no
\* other task and not the dispatcher; the outcome is counted once in errors;
\* restore_objects is never ended by the failure of a task.
FailureIsolation == [][FailureIsolationStep]_vars

\* on the second page, after a failure counted on the first page, a task is
\* in flight
FailureIsolationWitness ==
    /\ pc = "page"
    /\ page_index = 2
    /\ status.error = 1
    /\ \E k \in 1..Len(tasks) : InFlight(tasks[k])

\* C9: when the listing raises, the process ends with a non-zero exit
\* status.
ListingErrorIsFatal == (pc = "exit" /\ listError) => exitCode # 0

\* C10: the outcome of a task as a function of what head_object returned:
\* no metadata gives Error; a restore state, complete or in progress, gives
\* AlreadyRestored without a restore request; no restore state gives one
\* restore request and, when it succeeds, Restored.
DecisionTable ==
    \A k \in 1..Len(tasks) :
        /\ tasks[k].st = "restoring" => tasks[k].head = "norestore" /\ tasks[k].rpc = 1
        /\ tasks[k].st = "done" =>
              /\ tasks[k].head = "nohead" =>
                    tasks[k].result = Error /\ tasks[k].rpc = 0
              /\ tasks[k].head \in {"restore:false", "restore:true"} =>
                    tasks[k].result = AlreadyRestored /\ tasks[k].rpc = 0
              /\ tasks[k].head = "norestore" =>
                    /\ tasks[k].rpc = 1
                    /\ tasks[k].rr = "ok" => tasks[k].result = Restored
              /\ tasks[k].result = Restored =>
                    tasks[k].head = "norestore" /\ tasks[k].rr = "ok"

\* one task found the restore complete and made no request, one was restored
DecisionTableWitness ==
    \E i, k \in 1..Len(tasks) :
        /\ tasks[i].st = "done" /\ tasks[i].head = "restore:false"
        /\ tasks[i].result = AlreadyRestored /\ tasks[i].rpc = 0
        /\ tasks[k].st = "done" /\ tasks[k].result = Restored

\* the index that the first dispatched object of the run gets
SeedIndex == IF last_index = -1 THEN 0 ELSE last_index + 1

\* the objects of the pages that are finished when the page counter is p
ListedBefore(p) == ElementsOf(SubSeq(pages, 1, Min((p - 1) * cfg.size, Len(pages))))

\* C11: a task exists only for an object whose storage class is GLACIER or
\* ACCELERATED, and once the page is submitted every such object of the page
\* has one; an object of another class gets no head_object and no restore
\* call, and the index counter advances by the eligible objects only.
Eligibility ==
    /\ \A k \in 1..Len(tasks) : Eligible(tasks[k].key)
    /\ \A i \in 1..Len(bucket) : answers[i] # NoAnswer => Eligible(i)
    /\ (pc = "page" /\ tosubmit = <<>>) =>
          \A i \in ElementsOf(objects) :
             Eligible(i) <=> \E k \in 1..Len(tasks) : tasks[k].key = i
    /\ pc = "fetch" =>
          /\ \A i \in ListedBefore(page_index) :
                Eligible(i) <=> answers[i] # NoAnswer
          /\ index = SeedIndex + EligibleBefore(page_index)
    /\ pc = "page" => index = SeedIndex + EligibleBefore(page_index) + Len(tasks)

\* a page with a STANDARD and an ACCELERATED object is finished: one restore
\* request, one index used
EligibilityWitness ==
    /\ pc = "fetch"
    /\ page_index = 2
    /\ \E i, j \in ElementsOf(objects) :
          /\ bucket[i] = "STANDARD" /\ answers[i] = NoAnswer
          /\ bucket[j] = "ACCELERATED" /\ answers[j] = "accepted"
    /\ status = Status(0, 1, 0)
    /\ index = SeedIndex + 1

\* the number of eligible objects that the listing of the run yields before
\* object i
EligibleRank(i) ==
    Cardinality({n \in 1..Len(pages) : Eligible(pages[n]) /\ pages[n] < i})

\* the indexes follow the enumeration order, one by one, across the pages
IndexOrder ==
    /\ \A k \in 1..Len(tasks) :
          /\ tasks[k].index = SeedIndex + EligibleRank(tasks[k].key)
          /\ tasks[k].index < index
    /\ \A k \in 2..Len(tasks) :
          /\ LexLess(AllKeys[tasks[k - 1].key], AllKeys[tasks[k].key])
          /\ tasks[k].index = tasks[k - 1].index + 1

\* no task of the page runs while objects of the page are still to be
\* submitted
SubmittedBeforeAnyRuns ==
    (pc = "page" /\ tosubmit # <<>>) =>
        \A k \in 1..Len(tasks) : tasks[k].st = "pending"

\* C12 as stated: every index of the page is assigned before any task of the
\* page runs, and the indexes increase by one in enumeration order across
\* pages.
IndexesBeforeDispatch == SubmittedBeforeAnyRuns /\ IndexOrder

\* C12: a task has its index from the moment it is submitted, while earlier
\* tasks of the page may be running or finished; the index of an object is the
\* seed plus the number of eligible objects enumerated before it, whatever
\* the order in which the tasks finish.
IndexesInEnumerationOrder ==
    /\ IndexOrder
    /\ \A k \in 1..Len(tasks) :
          tasks[k].st = "pending" =>
              tasks[k].index \in SeedIndex..(index - 1)

\* the second task of a page has finished before the first, and has the
\* greater index
IndexesInEnumerationOrderWitness ==
    /\ pc = "page"
    /\ Len(tasks) = 2
    /\ tasks[1].st = "probing"
    /\ tasks[2].st = "done"
    /\ tasks[2].index = tasks[1].index + 1

\* the outcome that the answers of the service give an object
OutcomeOf(a) ==
    CASE a \in {"exception", "nohead"} -> Error
      [] a = "restore" -> AlreadyRestored
      [] a = "accepted" -> Restored
      [] OTHER -> Status(0, 0, 0)

\* the sum of the outcomes of the objects of S, taken in key order
RECURSIVE SumOutcomes(_, _)
SumOutcomes(S, i) ==
    IF i > Len(bucket) THEN Status(0, 0, 0)
    ELSE LET rest == SumOutcomes(S, i + 1)
             o == IF i \in S THEN OutcomeOf(answers[i]) ELSE Status(0, 0, 0)
         IN  Status(o.error + rest.error, o.restored + rest.restored,
                    o.already_restored + rest.already_restored)

\* C13: the Status at the end of each page, and the one that restore_objects
\* returns, is the sum over the eligible objects enumerated so far of the
\* outcome that the service's answers for the object determine; it does not
\* depend on the number of threads nor on the order in which tasks finish.
AggregateDeterminism ==
    (pc = "fetch" \/ (pc = "exit" /\ retval = "status")) =>
        status = SumOutcomes({i \in ListedBefore(page_index) : Eligible(i)}, 1)

\* two threads: the second object was logged before the first, one failed and
\* one was restored, and restore_objects has returned
AggregateDeterminismWitness ==
    /\ pc = "exit"
    /\ retval = "status"
    /\ cfg.threads = 2
    /\ status = Status(1, 1, 0)
    /\ \E m, n \in 1..Len(log) :
          m < n /\ log[m].key = AllKeys[2] /\ log[n].key = AllKeys[1]

Abs(a) == IF a < 0 THEN -a ELSE a

\* the least integer q with a <= q * b, for b >= 1
Ceiling(a, b) ==
    CHOOSE q \in (0 - Abs(a) - 1)..(Abs(a) + 1) : (q - 1) * b < a /\ a <= q * b

\* C14 as stated: without a prefix the page count is
\* ceil((total_count - start_index) / page_size) for every start_index >= -1,
\* the fresh run (start_index = -1) included.
PageCountFormulaAsStated ==
    (cfg.prefix = <<>> /\ page_count.known) =>
        page_count.n = Ceiling(object_count - last_index, cfg.size)

\* C14: without a prefix restore_objects computes the page count before the
\* first page; it is ceil(total_count / page_size) in a fresh run
\* (start_index = -1) and ceil((total_count - start_index) / page_size) in a
\* resumed run (start_index >= 0).
PageCountFormula ==
    /\ (cfg.prefix = <<>> /\ pc \in {"fetch", "page"}) => page_count.known
    /\ (cfg.prefix = <<>> /\ page_count.known) =>
          /\ object_count >= 1
          /\ last_index >= -1
          /\ page_count.n = IF last_index = -1
                            THEN Ceiling(object_count, cfg.size)
                            ELSE Ceiling(object_count - last_index, cfg.size)

\* a resumed run with start_index 1 over 2 objects, page size 2: one page
PageCountFormulaWitness ==
    /\ resume
    /\ pc = "fetch"
    /\ cfg.prefix = <<>>
    /\ last_index = 1
    /\ object_count = 2
    /\ cfg.size = 2
    /\ page_count = Count(1)

\* the run has made no listing call and no call for an object
NoCallMade ==
    /\ page_index = 1
    /\ ~page_count.known
    /\ objects = <<>>
    /\ tasks = <<>>
    /\ ~listError
    /\ retval = "running"
    /\ \A i \in 1..Len(bucket) : answers[i] = NoAnswer

PreconditionStep ==
    /\ (/\ pc \in {"idle", "exit", "killed"}
        /\ \/ cfg.threads > cfg.size
           \/ resume' /\ RecordsIn(Window(log)) = {})
       => (pc' = "exit" /\ exitCode' > 0 /\ NoCallMade')
    /\ (pc = "count" /\ object_count' # -1 /\ object_count' < 1)
       => (pc' = "exit" /\ exitCode' > 0 /\ NoCallMade')

\* C15: an invocation with threads > size, or with --resume while the last
\* lines of the log file hold no INFO or WARNING object record, or whose
\* object count is below 1 without a prefix, ends with a non-zero exit status
\* before any listing, head_object or restore call.
PreconditionsFatal == [][PreconditionStep]_vars

\* the same for the invocations that log to the default file
PreconditionsFatalDefaultLog ==
    [][cfg.log_file = DEFAULT_LOG => PreconditionStep]_vars

IsPrefixOf(s, t) == Len(s) <= Len(t) /\ SubSeq(t, 1, Len(s)) = s

\* C16: over any sequence of invocations, fresh, interrupted or resumed, the
\* log file only grows: its content before a step is a prefix of its content
\* after the step.
LogAppendOnly == [][IsPrefixOf(log, log')]_vars

\* C17: when a run with more than one thread was interrupted and the resumed
\* run has returned its Status, every eligible object of the bucket (with the
\* prefix, if one is given) has a line of restore_object in the log of the
\* interrupted run or was probed by the resumed run.
NoObjectSkipped ==
    (resume /\ prev.interrupted /\ cfg.threads > 1 /\ pc = "exit"
        /\ retval = "status") =>
        \A i \in 1..Len(bucket) :
            (Eligible(i) /\ StartsWith(AllKeys[i], cfg.prefix)) =>
                (i \in prev.probed \/ answers[i] # NoAnswer)

\* the resume point is the key of an eligible object of the bucket together
\* with the number of eligible objects before it
GenuineResumePoint ==
    \E i \in 1..Len(bucket) :
        /\ AllKeys[i] = last_object
        /\ Eligible(i)
        /\ last_index = Cardinality({j \in 1..(i - 1) : Eligible(j)})

\* C18: without a prefix the page count that restore_objects computes is the
\* number of pages that the paginator yields, in a fresh run and in a run
\* resumed from the record of an object of the bucket.
PageCountMatchesPages ==
    (cfg.prefix = <<>> /\ page_count.known /\ (resume => GenuineResumePoint)) =>
        page_count.n = PagesYielded(pages, cfg.size)

(***************************************************************************)
(* Progress.  The main thread and the threads of the pool keep running,    *)
(* and every call to the service returns or raises: a step of the run that *)
(* stays possible is eventually taken.  Nothing obliges a user to start    *)
(* the program again, and neither an interruption nor a failure of the     *)
(* listing has to happen.                                                  *)
(***************************************************************************)
RunStep ==
    \/ \E ok \in BOOLEAN : get_object_count(ok)
    \/ \E ok \in BOOLEAN : restore_objects_begin(ok)
    \/ FetchPage
    \/ NoContents
    \/ Return
    \/ Submit
    \/ \E i \in 1..Len(tasks) : StartTask(i)
    \/ \E i \in 1..Len(tasks), h \in HeadResults : HeadReturns(i, h)
    \/ \E i \in 1..Len(tasks), r \in RestoreResults : RestoreReturns(i, r)
    \/ \E i \in 1..Len(tasks) : Fold(i)
    \/ PageDone

FairSpec == Spec /\ WF_vars(RunStep)

\* restore_objects has its paginator and has not asked for a page yet
Enumerating == pc = "fetch" /\ page_index = 1

\* restore_objects has returned a Status that counts every eligible object
\* of the listing, and no task is pending or in flight
Completed ==
    /\ pc = "exit"
    /\ retval = "status"
    /\ Total(status) = Cardinality({i \in ElementsOf(pages) : Eligible(i)})
    /\ \A k \in 1..Len(tasks) : tasks[k].st = "done"

\* C19: unless the process is killed or the listing raises, a run that has
\* begun to enumerate eventually returns a Status whose counters sum to the
\* number of eligible objects enumerated, with no task left.
Termination == Enumerating ~> (pc = "killed" \/ listError \/ Completed)

\* the same for the runs whose listing holds at least one key
TerminationNonEmptyListing ==
    (Enumerating /\ pages # <<>>) ~> (pc = "killed" \/ listError \/ Completed)

\* the index that a single run from the beginning of the bucket gives object i
UninterruptedIndex(i) ==
    Cardinality({j \in 1..(i - 1) :
                    Eligible(j) /\ StartsWith(AllKeys[j], cfg.prefix)})

\* C20: in a run resumed from a record of the log of the interrupted run,
\* every dispatched object has the index that a single uninterrupted run
\* gives it.
IndexStability ==
    (resume /\ prev.interrupted /\ cfg.log_file = DEFAULT_LOG) =>
        \A k \in 1..Len(tasks) :
            tasks[k].index = UninterruptedIndex(tasks[k].key)

====
